---- MODULE Spec2Model ----
(***************************************************************************)
(* State-machine model of shelly::hap::StatelessSwitch                     *)
(* (src/src/shelly_hap_stateless_switch.cpp): one adapter object, the      *)
(* configuration record it points to, the input source it subscribes to    *)
(* and the uptime clock it reads.                                          *)
(***************************************************************************)
EXTENDS Integers, Sequences, FiniteSets, TLC

(* ------------------------------------------------------------------ *)
(* Bounds of the model                                                 *)
(* ------------------------------------------------------------------ *)
\* mgos_uptime() is modelled in whole ticks 0..MaxUptime.
MaxUptime == 1
\* The input source has handler slots 0..MaxHandlers-1.
MaxHandlers == 2
\* Init() is called at most MaxInits times on one adapter.
MaxInits == 2

(* ------------------------------------------------------------------ *)
(* Program constants                                                   *)
(* ------------------------------------------------------------------ *)
\* HAP values of the Programmable Switch Event characteristic.
kSinglePress == 0
kDoublePress == 1
kLongPress == 2
\* InMode enumerators, in the order the configuration documents them.
kMomentary == 0
kToggleShort == 1
kToggleShortLong == 2
\* Maximum length of the Name characteristic and of a configured name.
MaxNameLen == 64
\* uint16_t and uint8_t arithmetic.
UInt16Mod == 65536
UInt8Mod == 256
UINT8_MAX == 255
\* IID block of the stateless switches: base and per-instance step.
IID_BASE_STATELESS_SWITCH == 1024
IID_STEP_STATELESS_SWITCH == 4
\* Input::kInvalidHandlerID, the value of handler_id_ before Init().
kInvalidHandlerID == -1
\* Values of last_ev_ and last_ev_ts_ of a freshly constructed adapter.
InitLastEv == 0
InitLastEvTs == 0
\* json_scanf leaves in_mode at this value when the payload has no in_mode.
InModeUnset == -1

(* ------------------------------------------------------------------ *)
(* Value domains                                                       *)
(* ------------------------------------------------------------------ *)
\* A C string is modelled as ch repeated len times; nullptr is a value of
\* its own.
Str(c, n) == [ch |-> c, len |-> n]
nullptr == [ch |-> "nullptr", len |-> -1]
strlen(s) == s.len
strcmp(a, b) == IF a = b THEN 0 ELSE 1

Chars == {"a", "b"}
\* Names a payload can carry: at the limit and one past it.
PayloadNames ==
  {Str(c, MaxNameLen) : c \in Chars} \cup {Str("a", MaxNameLen + 1)}
\* Names the configuration store holds when the adapter is constructed.
\* GetInfo() guards against a NULL name, so NULL is one of them.
InitNames == {nullptr, Str("a", MaxNameLen)}
\* Identities given to the constructor; the service label index is 1..255.
AdapterIds == {1, UINT8_MAX}
AllIds == 1..UINT8_MAX
InModes == {kMomentary, kToggleShort, kToggleShortLong}
\* Input::Event
InputEvents == {"kSingle", "kDouble", "kLong", "kChange", "kReset"}
HandlerIds == 0..(MaxHandlers - 1)

\* A SetConfig payload: name (nullptr when the key is absent) and in_mode
\* (has_in_mode FALSE when the key is absent).
Payloads ==
  {[name |-> n, has_in_mode |-> TRUE, in_mode |-> m] :
      n \in PayloadNames \cup {nullptr}, m \in -1..3}
  \cup
  {[name |-> n, has_in_mode |-> FALSE, in_mode |-> 0] :
      n \in PayloadNames \cup {nullptr}}
NoPayload == [name |-> nullptr, has_in_mode |-> FALSE, in_mode |-> 0]

VARIABLES
  id,           \* Component::id()
  in_,          \* Input *in_: "null" or "input"
  cfg,          \* *cfg_: [name, in_mode]
  svc_iid,      \* svc_.iid
  chars_,       \* chars_: sequence of [iid, type]
  hap_chars_,   \* hap_chars_: sequence of indices into chars_, 0 = nullptr
  handler_id_,  \* handler_id_
  last_ev_,     \* last_ev_
  last_ev_ts_,  \* last_ev_ts_
  handlers,     \* the input source's handler table: slot -> owner
  uptime,       \* what mgos_uptime() returns now
  life,         \* "alive", "destroyed" or "crashed"
  raised,       \* history: <<v, t>> for the latest RaiseEvent(v), made at
                \* uptime t; <<>> if there was none
  out           \* the observable outcome of the latest operation

vars == <<id, in_, cfg, svc_iid, chars_, hap_chars_, handler_id_, last_ev_,
          last_ev_ts_, handlers, uptime, life, raised, out>>

NoOut ==
  [op |-> "none", status |-> "-", value |-> -1, restart |-> FALSE,
   age |-> -1, ev |-> "-", state |-> FALSE, payload |-> NoPayload,
   calls |-> 0, notified |-> <<>>]

(* ------------------------------------------------------------------ *)
(* Construction                                                        *)
(* ------------------------------------------------------------------ *)
\* The constructor stores its arguments and zero-initialises svc_; nothing
\* is registered yet.
Init ==
  /\ id \in AdapterIds
  /\ in_ \in {"null", "input"}
  /\ cfg \in [name : InitNames, in_mode : InModes]
  /\ svc_iid = 0
  /\ chars_ = <<>>
  /\ hap_chars_ = <<>>
  /\ handler_id_ = kInvalidHandlerID
  /\ last_ev_ = InitLastEv
  /\ last_ev_ts_ = InitLastEvTs
  /\ handlers = [h \in HandlerIds |-> "none"]
  /\ uptime = 0
  /\ life = "alive"
  /\ raised = <<>>
  /\ out = NoOut

(* ------------------------------------------------------------------ *)
(* The input source (Input::AddHandler / Input::RemoveHandler)         *)
(* ------------------------------------------------------------------ *)
FreeIds(hs) == {h \in HandlerIds : hs[h] = "none"}
\* AddHandler(cb) -> handler_id: the callback is stored under an id that is
\* not in use and that id is returned.
AddHandler(hs, h, owner) == [hs EXCEPT ![h] = owner]
\* RemoveHandler(handler_id): the callback stored under the id is dropped.
RemoveHandler(hs, h) ==
  IF h \in DOMAIN hs THEN [hs EXCEPT ![h] = "none"] ELSE hs
\* The handlers of the input source that are bound to the adapter.
BoundHandlers == {h \in HandlerIds : handlers[h] = "ssw"}

\* Other components subscribe to and unsubscribe from the same input.
OtherAddHandler ==
  /\ life # "crashed"
  /\ in_ = "input"
  /\ \E h \in FreeIds(handlers) :
       handlers' = AddHandler(handlers, h, "other")
  /\ out' = [NoOut EXCEPT !.op = "OtherAddHandler"]
  /\ UNCHANGED <<id, in_, cfg, svc_iid, chars_, hap_chars_, handler_id_,
                 last_ev_, last_ev_ts_, uptime, life, raised>>

OtherRemoveHandler ==
  /\ life # "crashed"
  /\ in_ = "input"
  /\ \E h \in HandlerIds :
       /\ handlers[h] = "other"
       /\ handlers' = RemoveHandler(handlers, h)
  /\ out' = [NoOut EXCEPT !.op = "OtherRemoveHandler"]
  /\ UNCHANGED <<id, in_, cfg, svc_iid, chars_, hap_chars_, handler_id_,
                 last_ev_, last_ev_ts_, uptime, life, raised>>

(* ------------------------------------------------------------------ *)
(* StatelessSwitch::~StatelessSwitch                                   *)
(* ------------------------------------------------------------------ *)
DtorHandlers_Leak(hs, hid) == hs
DtorHandlers_WrongId(hs, hid) == RemoveHandler(hs, hid - 1)
\* in_->RemoveHandler(handler_id_)
DtorHandlers(hs, hid) == RemoveHandler(hs, hid)

\* With in_ == nullptr the call dereferences a null pointer: the program
\* crashes.
Destroy ==
  /\ life = "alive"
  /\ IF in_ = "null"
       THEN /\ life' = "crashed"
            /\ out' = [NoOut EXCEPT !.op = "Destroy", !.status = "crash"]
            /\ UNCHANGED handlers
       ELSE /\ handlers' = DtorHandlers(handlers, handler_id_)
            /\ life' = "destroyed"
            /\ out' = [NoOut EXCEPT !.op = "Destroy", !.value = handler_id_]
  /\ UNCHANGED <<id, in_, cfg, svc_iid, chars_, hap_chars_, handler_id_,
                 last_ev_, last_ev_ts_, uptime, raised>>

(* ------------------------------------------------------------------ *)
(* StatelessSwitch::Init                                               *)
(* ------------------------------------------------------------------ *)
InitArgOK_Mut(in) == TRUE
\* if (in_ == nullptr) return InvalidArgument
InitArgOK(in) == in # "null"

Inc16(x) == (x + 1) % UInt16Mod
BaseIID_NoStep(i) == IID_BASE_STATELESS_SWITCH % UInt16Mod
\* uint16_t iid = IID_BASE_STATELESS_SWITCH + (IID_STEP_STATELESS_SWITCH * id1)
BaseIID(i) ==
  (IID_BASE_STATELESS_SWITCH + (IID_STEP_STATELESS_SWITCH * (i - 1)))
    % UInt16Mod
\* svc_.iid = iid++, then one iid++ per characteristic: name, event, label.
ServiceIID(i) == BaseIID(i)
NewChars(i) ==
  << [iid |-> Inc16(BaseIID(i)), type |-> "Name"],
     [iid |-> Inc16(Inc16(BaseIID(i))), type |-> "ProgrammableSwitchEvent"],
     [iid |-> Inc16(Inc16(Inc16(BaseIID(i)))), type |-> "ServiceLabelIndex"] >>

InitCall ==
  /\ life = "alive"
  /\ Len(chars_) < 3 * MaxInits
  /\ IF ~InitArgOK(in_)
       THEN /\ out' = [NoOut EXCEPT !.op = "Init",
                                    !.status = "InvalidArgument"]
            /\ UNCHANGED <<svc_iid, chars_, hap_chars_, handler_id_,
                           handlers>>
       ELSE /\ svc_iid' = ServiceIID(id)
            /\ chars_' = chars_ \o NewChars(id)
            /\ hap_chars_' = hap_chars_ \o
                 <<Len(chars_) + 1, Len(chars_) + 2, Len(chars_) + 3, 0>>
            /\ \E h \in FreeIds(handlers) :
                 /\ handlers' = AddHandler(handlers, h, "ssw")
                 /\ handler_id_' = h
            /\ out' = [NoOut EXCEPT !.op = "Init", !.status = "OK"]
  /\ UNCHANGED <<id, in_, cfg, last_ev_, last_ev_ts_, uptime, life, raised>>

\* svc_.characteristics = hap_chars_.data(): the framework walks the array
\* up to the first nullptr.
RECURSIVE UpToNull(_)
UpToNull(s) ==
  IF s = <<>> \/ Head(s) = 0 THEN <<>> ELSE <<Head(s)>> \o UpToNull(Tail(s))
ServiceChars == [k \in 1..Len(UpToNull(hap_chars_)) |->
                   chars_[UpToNull(hap_chars_)[k]]]

(* ------------------------------------------------------------------ *)
(* StatelessSwitch::SetConfig                                          *)
(* ------------------------------------------------------------------ *)
\* json_scanf("{name: %Q, in_mode: %d}"): a key that is absent leaves its
\* variable at the initial value (nullptr, -1).
ScanName(p) == p.name
ScanInMode(p) == IF p.has_in_mode THEN p.in_mode ELSE InModeUnset

NameTooLong_OffByOne(name) == name # nullptr /\ strlen(name) > MaxNameLen + 1
\* if (name != nullptr && strlen(name) > 64)
NameTooLong(name) == name # nullptr /\ strlen(name) > MaxNameLen

InModeInvalid_NoLowerBound(in_mode) == in_mode > kToggleShortLong
InModeInvalid_NoUpperBound(in_mode) == in_mode < kMomentary
\* if (in_mode < 0 || in_mode > 2)
InModeInvalid(in_mode) == in_mode < kMomentary \/ in_mode > kToggleShortLong

NameChanged_AnyName(name, stored) == name # nullptr
\* if (name != nullptr && strcmp(name, cfg_->name) != 0)
NameChanged(name, stored) == name # nullptr /\ strcmp(name, stored) # 0

\* mgos_conf_set_str(&cfg_->name, name): the record holds a copy of name.
mgos_conf_set_str(name) == name

StoredInMode_KeepOld(in_mode, old) == old
\* cfg_->in_mode = in_mode
StoredInMode(in_mode, old) == in_mode

\* strcmp(name, cfg_->name) with cfg_->name == NULL reads through a null
\* pointer: the program crashes.
SetConfig ==
  /\ life = "alive"
  /\ \E p \in Payloads :
       LET name == ScanName(p)
           in_mode == ScanInMode(p)
           res == [NoOut EXCEPT !.op = "SetConfig", !.payload = p]
       IN
         IF NameTooLong(name) \/ InModeInvalid(in_mode)
           THEN /\ out' = [res EXCEPT !.status = "InvalidArgument",
                                      !.restart = FALSE]
                /\ UNCHANGED <<cfg, life>>
         ELSE IF name # nullptr /\ cfg.name = nullptr
           THEN /\ out' = [res EXCEPT !.status = "crash"]
                /\ life' = "crashed"
                /\ UNCHANGED cfg
         ELSE /\ cfg' = [name |-> IF NameChanged(name, cfg.name)
                                     THEN mgos_conf_set_str(name)
                                     ELSE cfg.name,
                         in_mode |-> StoredInMode(in_mode, cfg.in_mode)]
              /\ out' = [res EXCEPT !.status = "OK",
                                    !.restart = NameChanged(name, cfg.name)]
              /\ UNCHANGED life
  /\ UNCHANGED <<id, in_, svc_iid, chars_, hap_chars_, handler_id_, last_ev_,
                 last_ev_ts_, handlers, uptime, raised>>

(* ------------------------------------------------------------------ *)
(* StatelessSwitch::InputEventHandler and RaiseEvent                   *)
(* ------------------------------------------------------------------ *)
InputEventHandler_IgnoreState(in_mode, ev, state) ==
  IF in_mode = kMomentary
    THEN IF ev = "kSingle" THEN <<kSinglePress>>
         ELSE IF ev = "kDouble" THEN <<kDoublePress>>
         ELSE IF ev = "kLong" THEN <<kLongPress>>
         ELSE <<>>
  ELSE IF in_mode \in {kToggleShort, kToggleShortLong}
    THEN IF ev # "kChange" THEN <<>> ELSE <<kSinglePress>>
  ELSE <<>>

InputEventHandler_NoFilter(in_mode, ev, state) ==
  IF in_mode = kMomentary
    THEN IF ev = "kSingle" THEN <<kSinglePress>>
         ELSE IF ev = "kDouble" THEN <<kDoublePress>>
         ELSE IF ev = "kLong" THEN <<kLongPress>>
         ELSE <<>>
  ELSE IF in_mode \in {kToggleShort, kToggleShortLong}
    THEN IF in_mode = kToggleShortLong /\ ~state
           THEN <<kDoublePress>>
           ELSE <<kSinglePress>>
  ELSE <<>>

\* The arguments of the RaiseEvent calls one InputEventHandler(ev, state)
\* call makes under cfg_->in_mode: none or one.
InputEventHandler(in_mode, ev, state) ==
  IF in_mode = kMomentary
    THEN IF ev = "kSingle" THEN <<kSinglePress>>
         ELSE IF ev = "kDouble" THEN <<kDoublePress>>
         ELSE IF ev = "kLong" THEN <<kLongPress>>
         ELSE <<>>
  ELSE IF in_mode \in {kToggleShort, kToggleShortLong}
    THEN IF ev # "kChange" THEN <<>>
         ELSE IF in_mode = kToggleShortLong /\ ~state
           THEN <<kDoublePress>>
           ELSE <<kSinglePress>>
  ELSE <<>>

\* HAPAccessoryServerRaiseEvent(server_, hap_chars_[1], &svc_, accessory_):
\* the characteristic the notification is issued for.
NotifiedChar == chars_[hap_chars_[2]]

\* RaiseEvent(ev): last_ev_ = ev; last_ev_ts_ = mgos_uptime(); notify.
RaiseEvent(ev, res) ==
  /\ last_ev_' = ev % UInt8Mod
  /\ last_ev_ts_' = uptime
  /\ raised' = <<ev, uptime>>
  /\ out' = [res EXCEPT !.value = ev,
                        !.notified = [k \in 1..res.calls |-> NotifiedChar]]

\* The input source delivers one event to every handler it holds.  A handler
\* of the adapter that is still held after the adapter was destroyed is a
\* call into freed memory: the program crashes.
InputEvent ==
  /\ life # "crashed"
  /\ in_ = "input"
  /\ \E ev \in InputEvents, state \in BOOLEAN :
       LET n == Cardinality(BoundHandlers)
           res == [NoOut EXCEPT !.op = "InputEvent", !.ev = ev,
                                !.state = state, !.calls = n]
           calls == InputEventHandler(cfg.in_mode, ev, state)
       IN
         IF n = 0
           THEN /\ out' = res
                /\ UNCHANGED <<last_ev_, last_ev_ts_, raised, life>>
         ELSE IF life = "destroyed"
           THEN /\ out' = [res EXCEPT !.status = "crash"]
                /\ life' = "crashed"
                /\ UNCHANGED <<last_ev_, last_ev_ts_, raised>>
         ELSE IF calls = <<>>
           THEN /\ out' = res
                /\ UNCHANGED <<last_ev_, last_ev_ts_, raised, life>>
         ELSE /\ RaiseEvent(calls[1], res)
              /\ UNCHANGED life
  /\ UNCHANGED <<id, in_, cfg, svc_iid, chars_, hap_chars_, handler_id_,
                 handlers, uptime>>

(* ------------------------------------------------------------------ *)
(* Read handlers, GetInfo, GetHAPService                               *)
(* ------------------------------------------------------------------ *)
\* The framework knows the characteristics once Init() has built them.
Readable == life = "alive" /\ Len(chars_) > 0

\* What HandleEventRead returns in the current state.
EventReadResult ==
  IF last_ev_ts_ = 0
    THEN [NoOut EXCEPT !.op = "HandleEventRead", !.status = "InvalidState"]
    ELSE [NoOut EXCEPT !.op = "HandleEventRead", !.status = "None",
                       !.value = last_ev_]

HandleEventRead_ClearsEvent ==
  /\ Readable
  /\ out' = EventReadResult
  /\ last_ev_' = 0
  /\ last_ev_ts_' = 0
  /\ UNCHANGED <<id, in_, cfg, svc_iid, chars_, hap_chars_, handler_id_,
                 handlers, uptime, life, raised>>

HandleEventRead ==
  /\ Readable
  /\ out' = EventReadResult
  /\ UNCHANGED <<id, in_, cfg, svc_iid, chars_, hap_chars_, handler_id_,
                 last_ev_, last_ev_ts_, handlers, uptime, life, raised>>

ServiceLabelIndex_Id1(i) == (i - 1) % UInt8Mod
\* *value = id(), a uint8_t
ServiceLabelIndex(i) == i % UInt8Mod

HandleServiceLabelIndexRead ==
  /\ Readable
  /\ out' = [NoOut EXCEPT !.op = "HandleServiceLabelIndexRead",
                          !.status = "None", !.value = ServiceLabelIndex(id)]
  /\ UNCHANGED <<id, in_, cfg, svc_iid, chars_, hap_chars_, handler_id_,
                 last_ev_, last_ev_ts_, handlers, uptime, life, raised>>

GetInfo ==
  /\ life = "alive"
  /\ out' = [NoOut EXCEPT !.op = "GetInfo", !.status = "OK",
                          !.value = last_ev_,
                          !.age = IF last_ev_ts_ > 0
                                    THEN uptime - last_ev_ts_
                                    ELSE -1]
  /\ UNCHANGED <<id, in_, cfg, svc_iid, chars_, hap_chars_, handler_id_,
                 last_ev_, last_ev_ts_, handlers, uptime, life, raised>>

GetHAPService ==
  /\ life = "alive"
  /\ out' = [NoOut EXCEPT !.op = "GetHAPService", !.value = svc_iid]
  /\ UNCHANGED <<id, in_, cfg, svc_iid, chars_, hap_chars_, handler_id_,
                 last_ev_, last_ev_ts_, handlers, uptime, life, raised>>

(* ------------------------------------------------------------------ *)
(* The clock                                                           *)
(* ------------------------------------------------------------------ *)
Tick ==
  /\ life # "crashed"
  /\ uptime < MaxUptime
  /\ uptime' = uptime + 1
  /\ out' = [NoOut EXCEPT !.op = "Tick"]
  /\ UNCHANGED <<id, in_, cfg, svc_iid, chars_, hap_chars_, handler_id_,
                 last_ev_, last_ev_ts_, handlers, life, raised>>

Next ==
  \/ InitCall
  \/ Destroy
  \/ SetConfig
  \/ InputEvent
  \/ HandleEventRead
  \/ HandleServiceLabelIndexRead
  \/ GetInfo
  \/ GetHAPService
  \/ OtherAddHandler
  \/ OtherRemoveHandler
  \/ Tick

Spec == Init /\ [][Next]_vars

(* ------------------------------------------------------------------ *)
(* Properties                                                          *)
(* ------------------------------------------------------------------ *)
\* The translation table of the input modes: <<mode, event, state, code>>.
TranslationTable ==
  {<<kMomentary, "kSingle", b, kSinglePress>> : b \in BOOLEAN}
  \cup {<<kMomentary, "kDouble", b, kDoublePress>> : b \in BOOLEAN}
  \cup {<<kMomentary, "kLong", b, kLongPress>> : b \in BOOLEAN}
  \cup {<<kToggleShort, "kChange", b, kSinglePress>> : b \in BOOLEAN}
  \cup {<<kToggleShortLong, "kChange", FALSE, kDoublePress>>,
        <<kToggleShortLong, "kChange", TRUE, kSinglePress>>}
\* The (mode, event) combinations the table has no row for.
OutsideTable(mode, ev) ==
  \/ mode = kMomentary /\ ev \in {"kChange", "kReset"}
  \/ mode \in {kToggleShort, kToggleShortLong}
       /\ ev \in {"kSingle", "kDouble", "kLong", "kReset"}
\* The events the latest operation raised: one code per notification.
RaisedBy(o) == {o.value : k \in 1..Len(o.notified)}

\* C1: an input event that reaches InputEventHandler under mode m with
\* event e and state s raises exactly the code the table gives for
\* (m, e, s), and raises nothing when the table has no row for it.
C1_TranslationTable ==
  (out.op = "InputEvent" /\ out.calls > 0 /\ life = "alive")
    => /\ cfg.in_mode \in InModes
       /\ RaisedBy(out) =
            {r[4] : r \in {t \in TranslationTable :
                             /\ t[1] = cfg.in_mode
                             /\ t[2] = out.ev
                             /\ t[3] = out.state}}
       /\ Len(out.notified) \in {0, out.calls}
\* C1 witness: ToggleShortLong, change, state = false raised DoublePress.
C1_Witness ==
  /\ out.op = "InputEvent" /\ out.calls = 1 /\ life = "alive"
  /\ cfg.in_mode = kToggleShortLong /\ out.ev = "kChange" /\ ~out.state
  /\ RaisedBy(out) = {kDoublePress}

C3_IgnoredEventChangesNothing ==
  [][(out'.op = "InputEvent" /\ life' = "alive"
        /\ OutsideTable(cfg.in_mode, out'.ev))
       => /\ out'.notified = <<>>
          /\ last_ev_' = last_ev_
          /\ last_ev_ts_' = last_ev_ts_
          /\ cfg' = cfg]_vars
\* C3 witness: ToggleShort ignored a single press that reached the handler
\* after an earlier event had been recorded.
C3_Witness ==
  /\ out.op = "InputEvent" /\ out.calls > 0 /\ life = "alive"
  /\ cfg.in_mode = kToggleShort /\ out.ev = "kSingle"
  /\ out.notified = <<>>
  /\ raised # <<>> /\ last_ev_ts_ > 0

\* C4: SetConfig with in_mode absent or outside {0,1,2} reports
\* InvalidArgument and leaves name and in_mode of the stored config
\* unchanged, also when the payload carries a valid new name.
C4_BadInModeRejected ==
  [][(out'.op = "SetConfig"
        /\ (~out'.payload.has_in_mode
              \/ out'.payload.in_mode \notin {0, 1, 2}))
       => /\ out'.status = "InvalidArgument"
          /\ cfg' = cfg]_vars
\* C4 witness: a payload without in_mode that carries a valid name different
\* from the stored one was rejected.
C4_Witness ==
  /\ out.op = "SetConfig" /\ out.status = "InvalidArgument"
  /\ ~out.payload.has_in_mode
  /\ out.payload.name # nullptr /\ out.payload.name.len <= MaxNameLen
  /\ cfg.name # nullptr /\ out.payload.name # cfg.name

\* C5: SetConfig with a name longer than 64 characters reports
\* InvalidArgument and leaves name and in_mode of the stored config
\* unchanged, also when the payload carries a valid in_mode that differs
\* from the stored one.
C5_LongNameRejected ==
  [][(out'.op = "SetConfig"
        /\ out'.payload.name # nullptr
        /\ out'.payload.name.len > 64)
       => /\ out'.status = "InvalidArgument"
          /\ cfg' = cfg]_vars
\* C5 witness: a 65-character name with a valid in_mode different from the
\* stored one was rejected.
C5_Witness ==
  /\ out.op = "SetConfig" /\ out.status = "InvalidArgument"
  /\ out.payload.name # nullptr /\ out.payload.name.len = MaxNameLen + 1
  /\ out.payload.has_in_mode /\ out.payload.in_mode \in InModes
  /\ out.payload.in_mode # cfg.in_mode

\* C6: a SetConfig call that returns sets restart_required to true exactly
\* when it succeeds and the payload carries a name different from the name
\* stored before the call; a call that only changes in_mode and every
\* failing call leave it false.
C6_RestartRequired ==
  [][(out'.op = "SetConfig" /\ life' = "alive")
       => (out'.restart
             <=> /\ out'.status = "OK"
                 /\ out'.payload.name # nullptr
                 /\ out'.payload.name # cfg.name)]_vars
\* C6 witness: a successful SetConfig stored a new name and set
\* restart_required.
C6_Witness ==
  /\ out.op = "SetConfig" /\ out.status = "OK" /\ out.restart
  /\ out.payload.name = cfg.name
  /\ out.payload.in_mode = cfg.in_mode

\* C7: once an adapter whose Init succeeded (once) is destroyed, the input
\* source holds no handler bound to it, and an input event delivered after
\* the destruction calls InputEventHandler zero times.
C7_DestructorUnsubscribes ==
  (life = "destroyed" /\ Len(chars_) = 3)
    => /\ BoundHandlers = {}
       /\ (out.op = "InputEvent" => out.calls = 0)
\* C7 witness: an input event was delivered after the destruction of an
\* initialised adapter.
C7_Witness ==
  /\ life = "destroyed" /\ Len(chars_) = 3
  /\ handler_id_ \in HandlerIds
  /\ out.op = "InputEvent" /\ out.calls = 0

\* C8: Init on an adapter constructed without an input source fails with
\* InvalidArgument and has no effect: no characteristic exists, svc_.iid is
\* still unassigned and no handler is registered.
C8_InitWithoutInput ==
  in_ = "null"
    => /\ (out.op = "Init" => out.status = "InvalidArgument")
       /\ chars_ = <<>>
       /\ hap_chars_ = <<>>
       /\ svc_iid = 0
       /\ handler_id_ = kInvalidHandlerID
       /\ BoundHandlers = {}
\* C8 witness: Init was called on an adapter without an input source.
C8_Witness ==
  in_ = "null" /\ out.op = "Init" /\ out.status = "InvalidArgument"

\* The IIDs Init gives an adapter of identity i: service and characteristics.
IIDsOf(i) == {ServiceIID(i)} \cup {NewChars(i)[k].iid : k \in 1..3}
IIDTable == [i \in AllIds |-> IIDsOf(i)]
\* The identities in 1..255 that share an IID with another identity.
CollidingIds ==
  {i \in AllIds : \E j \in AllIds \ {i} : IIDTable[i] \cap IIDTable[j] # {}}

C10_ServiceLabelIndex ==
  out.op = "HandleServiceLabelIndexRead"
    => out.status = "None" /\ out.value = id
\* C10 witness: the label was read after an event was raised and the
\* configuration was changed.
C10_Witness ==
  /\ out.op = "HandleServiceLabelIndexRead"
  /\ raised # <<>>
  /\ cfg.name = Str("b", MaxNameLen) /\ cfg.in_mode = kToggleShortLong

ObserverOps ==
  {"GetInfo", "SetConfig", "HandleEventRead", "HandleServiceLabelIndexRead",
   "GetHAPService"}

\* C12: last_ev_ and last_ev_ts_ change only in a step in which RaiseEvent
\* runs, RaiseEvent runs only in the delivery of an input event to
\* InputEventHandler, and GetInfo, SetConfig (successful or failing),
\* HandleEventRead, HandleServiceLabelIndexRead and GetHAPService leave both
\* unchanged.
C12_OnlyRaiseEventMutates ==
  [][/\ (last_ev_' # last_ev_ \/ last_ev_ts_' # last_ev_ts_)
          => (raised' # <<>> /\ last_ev_' = raised'[1]
                /\ last_ev_ts_' = raised'[2])
     /\ (raised' # raised \/ out'.notified # <<>>)
          => (out'.op = "InputEvent" /\ out'.calls > 0)
     /\ out'.op \in ObserverOps
          => (last_ev_' = last_ev_ /\ last_ev_ts_' = last_ev_ts_
                /\ raised' = raised)]_vars
\* C12 witness: the event characteristic was read successfully after an
\* event was raised at a later uptime than the one it still shows.
C12_Witness ==
  /\ out.op = "HandleEventRead" /\ out.status = "None"
  /\ raised # <<>> /\ last_ev_ = kLongPress
  /\ last_ev_ts_ > 0 /\ last_ev_ts_ = raised[2]

\* The codes the translation table gives for (mode, ev, state).
TableLookup(mode, ev, state) ==
  {t[4] : t \in {r \in TranslationTable :
                   r[1] = mode /\ r[2] = ev /\ r[3] = state}}

\* C13: a successful SetConfig stores the in_mode of its payload, no other
\* step changes the stored in_mode, and an input event that reaches
\* InputEventHandler is translated by the in_mode stored when it is
\* delivered: the mode of the latest successful SetConfig, or the initial
\* one.
C13_ModeOfLatestSetConfig ==
  [][/\ (out'.op = "SetConfig" /\ out'.status = "OK")
          => /\ out'.payload.has_in_mode
             /\ out'.payload.in_mode \in {0, 1, 2}
             /\ cfg'.in_mode = out'.payload.in_mode
     /\ ~(out'.op = "SetConfig" /\ out'.status = "OK")
          => cfg'.in_mode = cfg.in_mode
     /\ (out'.op = "InputEvent" /\ out'.calls > 0 /\ life' = "alive")
          => RaisedBy(out') = TableLookup(cfg.in_mode, out'.ev, out'.state)
    ]_vars
\* C13 witness: after a successful SetConfig (the stored name is one only
\* SetConfig stores) a change to state false was translated under
\* ToggleShortLong.
C13_Witness ==
  /\ out.op = "InputEvent" /\ out.calls > 0 /\ life = "alive"
  /\ cfg.name = Str("b", MaxNameLen)
  /\ cfg.in_mode = kToggleShortLong
  /\ out.ev = "kChange" /\ ~out.state
  /\ RaisedBy(out) = {kDoublePress}
  /\ last_ev_ = kDoublePress

C15_DestructorSafe ==
  out.op = "Destroy"
    => /\ in_ = "input"
       /\ out.status # "crash"
       /\ Len(chars_) > 0
       /\ out.value = handler_id_
       /\ handler_id_ \in HandlerIds

\* C16: the stored in_mode is always in {0,1,2}, the stored name is never
\* longer than 64 characters, and a successful read of the event
\* characteristic returns a value in {0,1,2}.
C16_StoredValuesInRange ==
  /\ cfg.in_mode \in {0, 1, 2}
  /\ cfg.name # nullptr => cfg.name.len <= 64
  /\ (out.op = "HandleEventRead" /\ out.status = "None")
       => out.value \in {0, 1, 2}
\* C16 witness: a long press was read back after SetConfig calls stored a new
\* name and Momentary mode, the latest call having been rejected.
C16_Witness ==
  /\ out.op = "HandleEventRead" /\ out.status = "None"
  /\ out.value = kLongPress
  /\ cfg.name = Str("b", MaxNameLen) /\ cfg.in_mode = kMomentary

\* The number of Init calls that succeeded on the adapter.
InitsDone == Len(chars_) \div 3

\* C17 as claimed: the input source never holds more than one handler bound
\* to the adapter, one raw input event causes at most one notification, and
\* none is left after the destructor, also after a second Init call.
C17_AtMostOneHandler ==
  /\ Cardinality(BoundHandlers) <= 1
  /\ out.op = "InputEvent" => (out.calls <= 1 /\ Len(out.notified) <= 1)
  /\ life = "destroyed" => BoundHandlers = {}

\* C17 as amended: every successful Init call registers one handler; while
\* Init has succeeded at most once the input source holds at most one handler
\* bound to the adapter, one raw input event causes at most one RaiseEvent
\* and one notification, and the destructor leaves none; the destructor
\* removes only the handler of the latest Init call, so every earlier one
\* stays registered.
C17_OneHandlerPerInit ==
  /\ life = "alive" => Cardinality(BoundHandlers) = InitsDone
  /\ life = "destroyed"
       => Cardinality(BoundHandlers)
            = IF InitsDone = 0 THEN 0 ELSE InitsDone - 1
  /\ InitsDone <= 1
       => /\ Cardinality(BoundHandlers) <= 1
          /\ out.op = "InputEvent"
               => (out.calls <= 1 /\ Len(out.notified) <= 1)
          /\ life = "destroyed" => BoundHandlers = {}
\* C17 witness: with Init done once and another component subscribed to the
\* same input, one raw event caused one call and one notification.
C17_Witness ==
  /\ out.op = "InputEvent" /\ life = "alive" /\ InitsDone = 1
  /\ \E h \in HandlerIds : handlers[h] = "other"
  /\ out.calls = 1 /\ Len(out.notified) = 1

====
